---- MODULE Spec2Model ----
(***************************************************************************)
(* appnest-events: REST backend for users, events and event registrations  *)
(* behind JWT authentication and role-based authorization (NestJS +        *)
(* TypeORM over MySQL).                                                    *)
(*                                                                         *)
(* One action is one HTTP request, taken through the guards declared on    *)
(* its controller, the controller method and the service method it calls,  *)
(* down to the rows it writes.  The store is the three tables of the       *)
(* migrations, with their unique indexes and foreign-key rules.            *)
(***************************************************************************)
EXTENDS Integers, FiniteSets, Sequences, TLC

\* ---------------------------------------------------------------- bounds
MaxUserId   == 4    \* AUTO_INCREMENT values handed out for user rows
MaxEventId  == 3    \* AUTO_INCREMENT values handed out for event rows
MaxRegId    == 2    \* AUTO_INCREMENT values handed out for registrations
MaxClock    == 1    \* ticks of the wall clock
MaxTokens   == 3    \* access tokens the clients keep at the same time
MaxRequests == 2    \* requests served after the initial state
MaxDepth    == 2    \* arrays and objects nested inside a response value

\* ------------------------------------------------------- input alphabets
Emails    == {"a@x.com", "b@x.com", "c@x.com", "d@x.com"}
Passwords == {"pw111", "pw222"}
Titles    == {"Expo", "Gala"}


\* enum UserRole
ADMIN     == "admin"
ORGANIZER == "organizer"
ATTENDEE  == "attendee"
UserRole  == {ADMIN, ORGANIZER, ATTENDEE}

Undefined == 0          \* an absent optional numeric DTO field (falsy)
NoRole    == ""         \* an absent optional role field
NULL      == 0          \* a NULL foreign key column

\* signOptions.expiresIn: JWT_EXPIRES_IN || '1h', one tick of the clock
ExpiresIn == 1

\* the two schemas of the migration history
SchemaFirst      == "1760931491356"   \* FK user SET NULL, FK event CASCADE
SchemaCorreccion == "1762115377296"   \* FK NO ACTION, title UNIQUE
Schemas == {SchemaFirst, SchemaCorreccion}

\* the two revisions of the registrations module: the named files
\* (registrations.service.ts, registrations.controller.ts) and the ones of
\* part_012 (service) and part_010 (controller)
RevMapped == "registrations.service.ts"   \* findAll(): maps every row
RevByRole == "part_012"                   \* findAll(user): filters by role
ServiceRevs == {RevMapped, RevByRole}

VARIABLES
  users,          \* table user:  id -> [email, password, role]
  events,         \* table event: id -> [title]
  registrations,  \* table event_registration: id -> [user, event, registeredAt]
  nextUserId, nextEventId, nextRegId,   \* AUTO_INCREMENT counters
  clock,          \* wall clock
  tokens,         \* signed access tokens the clients hold
  schema,         \* which migration built the tables
  serviceRev,     \* which revision of the registrations module is deployed
  served,         \* requests served so far
  resp,           \* the response to the last request
  inflight        \* creations between their lookup and their INSERT

store == <<users, events, registrations, nextUserId, nextEventId, nextRegId>>
vars  == <<users, events, registrations, nextUserId, nextEventId, nextRegId,
           clock, tokens, schema, serviceRev, served, resp, inflight>>

\* ids a request can name: the ids handed out so far and the next one, which
\* stands for every id that was never handed out
UserIds  == {i \in 1..MaxUserId : i <= nextUserId}
EventIds == {i \in 1..MaxEventId : i <= nextEventId}
RegIds   == {i \in 1..MaxRegId : i <= nextRegId}

\* ------------------------------------------------------------- messages
Msg(text, id, rol, roles) ==
  [text |-> text, id |-> id, rol |-> rol, roles |-> roles]
NoMsg == Msg("", 0, NoRole, <<>>)

\* ------------------------------------------------------ password hashing
\* bcrypt.hash(password, 10): irreversible, never equal to its input
bcryptHash(password) == [alg |-> "bcrypt", rounds |-> 10, of |-> password]
\* bcrypt.compare(password, stored)
bcryptCompare(password, stored) ==
  stored.alg = "bcrypt" /\ stored.of = password

\* ------------------------------------------------------------ token codec
NoToken == [sub |-> 0, email |-> "", role |-> NoRole, exp |-> 0, sig |-> "none"]
\* jwtService.signAsync(payload) with the module's secret and expiresIn
signAsync(payload, now) ==
  [sub |-> payload.sub, email |-> payload.email, role |-> payload.role,
   exp |-> now + ExpiresIn, sig |-> "good"]
\* a token signed with another key, claiming to be an admin
ForgedTokens ==
  {[sub |-> 1, email |-> "a@x.com", role |-> ADMIN, exp |-> MaxClock + 1,
    sig |-> "bad"]}

\* request.user
NoUser == [userId |-> 0, email |-> "", role |-> NoRole]

\* JwtStrategy with ignoreExpiration: true
JwtVerify_ignoreExpiration(tok, now) == tok.sig = "good"

\* JwtStrategy: bearer token from the header, signature checked with the
\* secret, ignoreExpiration: false
JwtVerify(tok, now) == tok.sig = "good" /\ now < tok.exp
\* JwtStrategy.validate(payload)
validate(payload) ==
  [userId |-> payload.sub, email |-> payload.email, role |-> payload.role]
\* a guard that also looks the token's user up and compares the role
JwtAuthGuard_checksUser(tok, now) ==
  IF /\ JwtVerify(tok, now)
     /\ tok.sub \in DOMAIN users
     /\ users[tok.sub].role = tok.role
    THEN validate(tok) ELSE NoUser

\* JwtAuthGuard = AuthGuard('jwt'): request.user or 401
JwtAuthGuard(tok, now) ==
  IF JwtVerify(tok, now) THEN validate(tok) ELSE NoUser

\* --------------------------------------------------------- role metadata
\* Roles(...roles) = SetMetadata(ROLES_KEY, roles)
Roles(roles) == [defined |-> TRUE, roles |-> roles]
NoRolesMetadata == [defined |-> FALSE, roles |-> <<>>]

Includes(seq, x) == \E i \in 1..Len(seq) : seq[i] = x

Allow == [ok |-> TRUE, status |-> 0, message |-> NoMsg]
Deny(status, message) == [ok |-> FALSE, status |-> status, message |-> message]

\* RolesGuard without the requiredRoles.includes(user.role) test
canActivate_anyRole(requiredRoles, user) ==
  IF ~requiredRoles.defined THEN Allow
  ELSE IF user = NoUser
    THEN Deny(403, Msg("Usuario no autenticado.", 0, NoRole, <<>>))
  ELSE Allow

\* RolesGuard.canActivate
canActivate(requiredRoles, user) ==
  IF ~requiredRoles.defined THEN Allow
  ELSE IF user = NoUser
    THEN Deny(403, Msg("Usuario no autenticado.", 0, NoRole, <<>>))
  ELSE IF ~Includes(requiredRoles.roles, user.role)
    THEN Deny(403, Msg("Acceso denegado. Rol actual / Se requiere uno de",
                       0, user.role, requiredRoles.roles))
  ELSE Allow

\* @UseGuards(RolesGuard, JwtAuthGuard): the role check before request.user
\* has been set
UseGuards_rolesFirst(tok, now, requiredRoles) ==
  LET r == canActivate(requiredRoles, NoUser)
      user == JwtAuthGuard(tok, now) IN
  IF ~r.ok
    THEN [pass |-> FALSE, status |-> r.status, message |-> r.message,
          user |-> NoUser, steps |-> <<"RolesGuard">>]
  ELSE IF user = NoUser
    THEN [pass |-> FALSE, status |-> 401,
          message |-> Msg("Unauthorized", 0, NoRole, <<>>),
          user |-> NoUser, steps |-> <<"RolesGuard", "JwtAuthGuard">>]
  ELSE [pass |-> TRUE, status |-> 0, message |-> NoMsg,
        user |-> user, steps |-> <<"RolesGuard", "JwtAuthGuard">>]

\* @UseGuards(JwtAuthGuard, RolesGuard): guards run in the order listed,
\* the first one that fails ends the request
UseGuards(tok, now, requiredRoles) ==
  LET user == JwtAuthGuard(tok, now) IN
  IF user = NoUser
    THEN [pass |-> FALSE, status |-> 401,
          message |-> Msg("Unauthorized", 0, NoRole, <<>>),
          user |-> NoUser, steps |-> <<"JwtAuthGuard">>]
    ELSE LET r == canActivate(requiredRoles, user) IN
         [pass |-> r.ok, status |-> r.status, message |-> r.message,
          user |-> user, steps |-> <<"JwtAuthGuard", "RolesGuard">>]

\* RegistrationsController with findOne open to the three roles
RegistrationsControllerRoles_readsOpen ==
  [create  |-> Roles(<<ADMIN, ORGANIZER>>),
   findAll |-> Roles(<<ADMIN, ORGANIZER, ATTENDEE>>),
   findOne |-> Roles(<<ADMIN, ORGANIZER, ATTENDEE>>),
   update  |-> Roles(<<ADMIN, ORGANIZER>>),
   remove  |-> Roles(<<ADMIN>>)]

\* @Roles on the methods of RegistrationsController
RegistrationsControllerRoles ==
  [create  |-> Roles(<<ADMIN, ORGANIZER>>),
   findAll |-> Roles(<<ADMIN, ORGANIZER, ATTENDEE>>),
   findOne |-> Roles(<<ADMIN, ORGANIZER>>),
   update  |-> Roles(<<ADMIN, ORGANIZER>>),
   remove  |-> Roles(<<ADMIN>>)]

\* @Roles on the methods of UsersController
UsersControllerRoles ==
  [create  |-> Roles(<<ADMIN>>),
   findAll |-> Roles(<<ADMIN>>),
   findOne |-> Roles(<<ADMIN>>),
   update  |-> Roles(<<ADMIN>>),
   remove  |-> Roles(<<ADMIN>>)]

\* EventsAppController with remove open to organizers too
EventsAppControllerRoles_organizerRemoves ==
  [getEvents    |-> Roles(<<ADMIN, ORGANIZER, ATTENDEE>>),
   getEventById |-> Roles(<<ADMIN, ORGANIZER, ATTENDEE>>),
   create       |-> Roles(<<ADMIN, ORGANIZER>>),
   update       |-> Roles(<<ADMIN, ORGANIZER>>),
   remove       |-> Roles(<<ADMIN, ORGANIZER>>)]

\* the roles of EventsAppController with every write for admin alone
EventsAppControllerRoles_adminWrites ==
  [getEvents    |-> Roles(<<ADMIN, ORGANIZER, ATTENDEE>>),
   getEventById |-> Roles(<<ADMIN, ORGANIZER, ATTENDEE>>),
   create       |-> Roles(<<ADMIN>>),
   update       |-> Roles(<<ADMIN>>),
   remove       |-> Roles(<<ADMIN>>)]

\* @Roles on the methods of EventsAppController
EventsAppControllerRoles ==
  [getEvents    |-> Roles(<<ADMIN, ORGANIZER, ATTENDEE>>),
   getEventById |-> Roles(<<ADMIN, ORGANIZER, ATTENDEE>>),
   create       |-> Roles(<<ADMIN, ORGANIZER>>),
   update       |-> Roles(<<ADMIN, ORGANIZER>>),
   remove       |-> Roles(<<ADMIN>>)]

\* ------------------------------------------------------------- responses
\* ctl/op: the route; ran: the controller method was entered; body: the
\* credentials a request to /auth carried (NoBody elsewhere); steps: the
\* guards evaluated; user: request.user; tok: the bearer token presented;
\* data: ids of the rows returned; token: accessToken of a login; cause: why
\* a login failed (not sent)
NoBody == [email |-> "", password |-> "", role |-> NoRole]
Response(ctl, op, status, message, ran, body, g, data, token, cause) ==
  [ctl |-> ctl, op |-> op, status |-> status, message |-> message,
   ran |-> ran, body |-> body, steps |-> g.steps, user |-> g.user,
   tok |-> g.tok, data |-> data, token |-> token, cause |-> cause]

NoGuards(tok) == [steps |-> <<>>, user |-> NoUser, tok |-> tok]
Guarded(tok, g) == [steps |-> g.steps, user |-> g.user, tok |-> tok]

\* the guard chain ended the request
Rejected(ctl, op, tok, g) ==
  Response(ctl, op, g.status, g.message, FALSE, NoBody, Guarded(tok, g), {},
           NoToken, "")
\* HttpExceptionFilter on anything that is not an HttpException
InternalError == Msg("Error interno del servidor", 0, NoRole, <<>>)

\* tokens a client can put in the Authorization header
Presentable == {NoToken} \cup ForgedTokens \cup tokens

\* --------------------------------------------------------------- queries
\* userRepo.findOne({ where: { email } })
UserByEmail(email) == {i \in DOMAIN users : users[i].email = email}
\* eventRepository.findOne({ where: { title } })
EventByTitle(title) == {i \in DOMAIN events : events[i].title = title}

Put(f, k, v) == [x \in DOMAIN f \cup {k} |-> IF x = k THEN v ELSE f[x]]
Drop(f, k)   == [x \in DOMAIN f \ {k} |-> f[x]]

\* ------------------------------------------------- outcomes of a handler
\* what a controller method leaves behind: the HTTP status, the message of
\* the exception it threw (if any), the rows and counters after it, the ids
\* of the rows it returned, and the token it issued
Cur ==
  [status |-> 200, message |-> NoMsg, data |-> {}, token |-> NoToken,
   cause |-> "",
   users |-> users, events |-> events, registrations |-> registrations,
   nextUserId |-> nextUserId, nextEventId |-> nextEventId,
   nextRegId |-> nextRegId]
Throw(status, message) == [Cur EXCEPT !.status = status, !.message = message]
Return(status, data) == [Cur EXCEPT !.status = status, !.data = data]

\* ----------------------------------------------------------------- store
\* INSERT INTO user with no DEFAULT on the role column
InsertUser_noDefault(row) ==
  IF UserByEmail(row.email) # {}
    THEN Throw(500, InternalError)
    ELSE [Cur EXCEPT !.status = 201, !.data = {nextUserId},
            !.users = Put(users, nextUserId,
               [email |-> row.email, password |-> row.password,
                role |-> row.role]),
            !.nextUserId = nextUserId + 1]

\* INSERT INTO user: UNIQUE INDEX on email, role DEFAULT 'attendee'
InsertUser(row) ==
  IF UserByEmail(row.email) # {}
    THEN Throw(500, InternalError)
    ELSE [Cur EXCEPT !.status = 201, !.data = {nextUserId},
            !.users = Put(users, nextUserId,
               [email |-> row.email, password |-> row.password,
                role |-> IF row.role = NoRole THEN ATTENDEE ELSE row.role]),
            !.nextUserId = nextUserId + 1]

\* UPDATE user SET ... WHERE id: UNIQUE INDEX on email
UpdateUser(id, row) ==
  IF UserByEmail(row.email) \ {id} # {}
    THEN Throw(500, InternalError)
    ELSE [Cur EXCEPT !.users = Put(users, id, row), !.data = {id}]

\* DELETE FROM user WHERE id, under the foreign key of event_registration
DeleteUser(id) ==
  LET refs == {r \in DOMAIN registrations : registrations[r].user = id} IN
  IF schema = SchemaFirst
    THEN \* ON DELETE SET NULL
         [Cur EXCEPT !.users = Drop(users, id),
            !.registrations = [r \in DOMAIN registrations |->
               IF r \in refs
                 THEN [registrations[r] EXCEPT !.user = NULL]
                 ELSE registrations[r]]]
    ELSE \* ON DELETE NO ACTION
         IF refs # {} THEN Throw(500, InternalError)
         ELSE [Cur EXCEPT !.users = Drop(users, id)]

\* the event table has a UNIQUE INDEX on title only in the later schema
TitleTaken(title, except) ==
  schema = SchemaCorreccion /\ EventByTitle(title) \ {except} # {}

\* INSERT INTO event
InsertEvent(row) ==
  IF TitleTaken(row.title, 0)
    THEN Throw(500, InternalError)
    ELSE [Cur EXCEPT !.status = 201, !.data = {nextEventId},
            !.events = Put(events, nextEventId, row),
            !.nextEventId = nextEventId + 1]

\* DELETE FROM event WHERE id, under the foreign key of event_registration
DeleteEvent(id) ==
  LET refs == {r \in DOMAIN registrations : registrations[r].event = id} IN
  IF schema = SchemaFirst
    THEN \* ON DELETE CASCADE
         [Cur EXCEPT !.events = Drop(events, id),
            !.registrations = [r \in DOMAIN registrations \ refs |->
                                 registrations[r]]]
    ELSE \* ON DELETE NO ACTION
         IF refs # {} THEN Throw(500, InternalError)
         ELSE [Cur EXCEPT !.events = Drop(events, id)]

\* a row of event_registration whose joined user or event is null
Dangling(r) == registrations[r].user = NULL \/ registrations[r].event = NULL

\* ----------------------------------------------------------- AuthService
\* register without the findOne({ where: { email } }) lookup
AuthService_register_noLookup(data) ==
  InsertUser([email |-> data.email, password |-> bcryptHash(data.password),
              role |-> data.role])

\* AuthService.register(data)
AuthService_register(data) ==
  IF UserByEmail(data.email) # {}
    THEN Throw(400, Msg("El correo ya esta registrado", 0, NoRole, <<>>))
    ELSE InsertUser([email |-> data.email,
                     password |-> bcryptHash(data.password),
                     role |-> data.role])

\* login that tells an unknown email from a wrong password
AuthService_login_leaky(data) ==
  LET found == UserByEmail(data.email) IN
  IF found = {}
    THEN [Throw(404, Msg("Usuario no encontrado", 0, NoRole, <<>>))
            EXCEPT !.cause = "unknown email"]
  ELSE LET id == CHOOSE i \in found : TRUE
           user == users[id] IN
    IF ~bcryptCompare(data.password, user.password)
      THEN [Throw(401, Msg("Las credenciales son invalidas", 0, NoRole, <<>>))
              EXCEPT !.cause = "wrong password"]
      ELSE [Cur EXCEPT !.status = 201, !.data = {id},
              !.token = signAsync([sub |-> id, email |-> user.email,
                                   role |-> user.role], clock)]

\* AuthService.login(data)
AuthService_login(data) ==
  LET found == UserByEmail(data.email) IN
  IF found = {}
    THEN [Throw(401, Msg("Las credenciales son invalidas", 0, NoRole, <<>>))
            EXCEPT !.cause = "unknown email"]
  ELSE LET id == CHOOSE i \in found : TRUE
           user == users[id] IN
    IF ~bcryptCompare(data.password, user.password)
      THEN [Throw(401, Msg("Las credenciales son invalidas", 0, NoRole, <<>>))
              EXCEPT !.cause = "wrong password"]
      ELSE [Cur EXCEPT !.status = 201, !.data = {id},
              !.token = signAsync([sub |-> id, email |-> user.email,
                                   role |-> user.role], clock)]

\* ---------------------------------------------------------- UsersService
\* UsersService.create(data)
UsersService_create(data) ==
  IF UserByEmail(data.email) # {}
    THEN Throw(400, Msg("No se pudo completar el registro. Verifica tus datos.",
                        0, NoRole, <<>>))
    ELSE InsertUser([email |-> data.email,
                     password |-> bcryptHash(data.password),
                     role |-> data.role])

\* UsersService.findAll()
UsersService_findAll == Return(200, DOMAIN users)

\* UsersService.findOne(id)
UsersService_findOne(id) ==
  IF id \notin DOMAIN users
    THEN Throw(404, Msg("Usuario con ID no encontrado.", id, NoRole, <<>>))
    ELSE Return(200, {id})

\* update whose Object.assign(user, data) comes before the bcrypt.hash: the
\* row gets the password as it was sent
UsersService_update_noHash(id, data) ==
  IF id \notin DOMAIN users
    THEN Throw(404, Msg("Usuario con ID no encontrado.", id, NoRole, <<>>))
  ELSE LET user == users[id] IN
    UpdateUser(id,
      [email    |-> IF data.email # "" THEN data.email ELSE user.email,
       password |-> IF data.password # ""
                      THEN [alg |-> "none", rounds |-> 0,
                            of |-> data.password]
                      ELSE user.password,
       role     |-> IF data.role # NoRole THEN data.role ELSE user.role])

\* UsersService.update(id, data); an absent field of the DTO is "" 
UsersService_update(id, data) ==
  IF id \notin DOMAIN users
    THEN Throw(404, Msg("Usuario con ID no encontrado.", id, NoRole, <<>>))
  ELSE LET user == users[id] IN
    IF data.email # "" /\ data.email # user.email
       /\ UserByEmail(data.email) # {}
      THEN Throw(400, Msg("El correo ya esta registrado por otro usuario",
                          0, NoRole, <<>>))
      ELSE UpdateUser(id,
             [email    |-> IF data.email # "" THEN data.email ELSE user.email,
              password |-> IF data.password # ""
                             THEN bcryptHash(data.password)
                             ELSE user.password,
              role     |-> IF data.role # NoRole THEN data.role
                                                 ELSE user.role])

\* UsersService.remove(id)
UsersService_remove(id) ==
  IF id \notin DOMAIN users
    THEN Throw(404, Msg("Usuario con ID no encontrado.", id, NoRole, <<>>))
    ELSE DeleteUser(id)

\* ------------------------------------------------------ EventsAppService
\* EventsAppService.findAll()
EventsAppService_findAll == Return(200, DOMAIN events)

\* EventsAppService.findOne(id)
EventsAppService_findOne(id) ==
  IF id \notin DOMAIN events
    THEN Throw(404, Msg("Evento con ID no encontrado", id, NoRole, <<>>))
    ELSE Return(200, {id})

\* Event.capacity of an event created without one: @Column({ default: 100 })
DefaultCapacity == 100

\* EventsAppService.create(data)
EventsAppService_create(data) ==
  IF EventByTitle(data.title) # {}
    THEN Throw(400, Msg("Ya existe un evento con el titulo", 0, NoRole, <<>>))
    ELSE InsertEvent([title |-> data.title, capacity |-> DefaultCapacity])

\* EventsAppService.update(id, data): eventRepository.update(id, data)
EventsAppService_update(id, data) ==
  IF id \notin DOMAIN events
    THEN Throw(404, Msg("Evento con ID no encontrado", id, NoRole, <<>>))
  ELSE IF data.title = "" THEN Return(200, {id})
  ELSE IF TitleTaken(data.title, id) THEN Throw(500, InternalError)
  ELSE [Cur EXCEPT !.data = {id},
          !.events = Put(events, id, [events[id] EXCEPT !.title = data.title])]

\* EventsAppService.remove(id)
EventsAppService_remove(id) ==
  IF id \notin DOMAIN events
    THEN Throw(404, Msg("Evento con ID no encontrado", id, NoRole, <<>>))
    ELSE DeleteEvent(id)

\* -------------------------------------------------- RegistrationsService
RegNotFound(id) == Msg("Registro con ID no encontrado.", id, NoRole, <<>>)
UserNotFound(id) == Msg("Usuario con ID no encontrado.", id, NoRole, <<>>)
EventNotFound(id) == Msg("Evento con ID no encontrado.", id, NoRole, <<>>)

\* create without the eventRepo.findOne check
RegistrationsService_create_noEventCheck(dto) ==
  IF dto.userId \notin DOMAIN users THEN Throw(404, UserNotFound(dto.userId))
  ELSE [Cur EXCEPT !.status = 201, !.data = {nextRegId},
          !.registrations = Put(registrations, nextRegId,
             [user |-> dto.userId, event |-> dto.eventId,
              registeredAt |-> clock]),
          !.nextRegId = nextRegId + 1]

\* RegistrationsService.create(dto)
RegistrationsService_create(dto) ==
  IF dto.userId \notin DOMAIN users THEN Throw(404, UserNotFound(dto.userId))
  ELSE IF dto.eventId \notin DOMAIN events
    THEN Throw(404, EventNotFound(dto.eventId))
  ELSE [Cur EXCEPT !.status = 201, !.data = {nextRegId},
          !.registrations = Put(registrations, nextRegId,
             [user |-> dto.userId, event |-> dto.eventId,
              registeredAt |-> clock]),
          !.nextRegId = nextRegId + 1]

\* RegistrationsService.findAll: the revision of the named file takes no
\* argument and maps every row (reading r.user.id of a row whose user is
\* null throws a TypeError); the other revision filters by the caller's role
RegistrationsService_findAll(user) ==
  IF serviceRev = RevMapped
    THEN IF \E r \in DOMAIN registrations : Dangling(r)
           THEN Throw(500, InternalError)
           ELSE Return(200, DOMAIN registrations)
    ELSE IF user.role = ATTENDEE
           THEN Return(200, {r \in DOMAIN registrations :
                               registrations[r].user = user.userId})
           ELSE Return(200, DOMAIN registrations)

\* RegistrationsService.findOne(id)
RegistrationsService_findOne(id) ==
  IF id \notin DOMAIN registrations THEN Throw(404, RegNotFound(id))
  ELSE IF serviceRev = RevMapped /\ Dangling(id)
    THEN Throw(500, InternalError)
  ELSE Return(200, {id})

\* update that saves the new user before it looks the event up
RegistrationsService_update_savesUserFirst(id, dto) ==
  IF id \notin DOMAIN registrations THEN Throw(404, RegNotFound(id))
  ELSE IF dto.userId # Undefined /\ dto.userId \notin DOMAIN users
    THEN Throw(404, UserNotFound(dto.userId))
  ELSE
    LET old == registrations[id]
        withUser == [old EXCEPT !.user = IF dto.userId # Undefined
                                           THEN dto.userId ELSE old.user]
    IN  IF dto.eventId # Undefined /\ dto.eventId \notin DOMAIN events
          THEN [Throw(404, EventNotFound(dto.eventId)) EXCEPT
                  !.registrations = Put(registrations, id, withUser)]
          ELSE [Cur EXCEPT !.data = {id},
                  !.registrations = Put(registrations, id,
                     [withUser EXCEPT !.event = IF dto.eventId # Undefined
                                                  THEN dto.eventId
                                                  ELSE old.event])]

\* update that stamps the row with the time of the update
RegistrationsService_update_stampsNow(id, dto) ==
  IF id \notin DOMAIN registrations THEN Throw(404, RegNotFound(id))
  ELSE IF dto.userId # Undefined /\ dto.userId \notin DOMAIN users
    THEN Throw(404, UserNotFound(dto.userId))
  ELSE IF dto.eventId # Undefined /\ dto.eventId \notin DOMAIN events
    THEN Throw(404, EventNotFound(dto.eventId))
  ELSE
    LET old == registrations[id]
    IN  [Cur EXCEPT !.data = {id},
           !.registrations = Put(registrations, id,
              [user  |-> IF dto.userId # Undefined THEN dto.userId
                                                   ELSE old.user,
               event |-> IF dto.eventId # Undefined THEN dto.eventId
                                                    ELSE old.event,
               registeredAt |-> clock])]

\* RegistrationsService.update(id, dto)
RegistrationsService_update(id, dto) ==
  IF id \notin DOMAIN registrations THEN Throw(404, RegNotFound(id))
  ELSE IF dto.userId # Undefined /\ dto.userId \notin DOMAIN users
    THEN Throw(404, UserNotFound(dto.userId))
  ELSE IF dto.eventId # Undefined /\ dto.eventId \notin DOMAIN events
    THEN Throw(404, EventNotFound(dto.eventId))
  ELSE
    LET old == registrations[id]
        new == [user  |-> IF dto.userId # Undefined THEN dto.userId
                                                    ELSE old.user,
                event |-> IF dto.eventId # Undefined THEN dto.eventId
                                                     ELSE old.event,
                registeredAt |-> old.registeredAt]
        saved == [Cur EXCEPT !.data = {id},
                    !.registrations = Put(registrations, id, new)]
    IN  \* the named revision reads updated.user.id after the save
        IF serviceRev = RevMapped /\ (new.user = NULL \/ new.event = NULL)
          THEN [saved EXCEPT !.status = 500, !.message = InternalError,
                             !.data = {}]
          ELSE saved

\* RegistrationsService.remove(id)
RegistrationsService_remove(id) ==
  IF id \notin DOMAIN registrations
    THEN IF serviceRev = RevMapped
           THEN \* returns { message } instead of throwing
                [Cur EXCEPT !.message =
                   Msg("No se encontro ningun registro con ID", id,
                       NoRole, <<>>)]
           ELSE Throw(404, RegNotFound(id))
  ELSE
    LET deleted == [Cur EXCEPT !.data = {id},
                      !.registrations = Drop(registrations, id)]
    IN  \* the named revision reads registration.user.name after the delete
        IF serviceRev = RevMapped /\ Dangling(id)
          THEN [deleted EXCEPT !.status = 500, !.message = InternalError,
                               !.data = {}]
          ELSE deleted

\* ---------------------------------------------------------------- requests
\* the response and the rows after a controller method with outcome out
Handle(ctl, op, tok, g, body, out) ==
  /\ out.nextUserId <= MaxUserId + 1
  /\ out.nextEventId <= MaxEventId + 1
  /\ out.nextRegId <= MaxRegId + 1
  /\ resp' = Response(ctl, op, out.status, out.message, TRUE, body,
                      Guarded(tok, g), out.data, out.token, out.cause)
  /\ users' = out.users
  /\ events' = out.events
  /\ registrations' = out.registrations
  /\ nextUserId' = out.nextUserId
  /\ nextEventId' = out.nextEventId
  /\ nextRegId' = out.nextRegId

\* the identities the tokens in circulation carry
Callers == {validate(tok) : tok \in tokens}

\* a request to a method of a controller under @UseGuards(JwtAuthGuard,
\* RolesGuard): the guards on the bearer token, then the method on one of
\* its inputs, outcomes[request.user] being what the method can leave
Route(ctl, op, requiredRoles, outcomes) ==
  /\ served < MaxRequests
  /\ served' = served + 1
  /\ \E tok \in Presentable :
       LET g == UseGuards(tok, clock, requiredRoles) IN
       IF ~g.pass
         THEN /\ resp' = Rejected(ctl, op, tok, g)
              /\ UNCHANGED store
         ELSE \E out \in outcomes[g.user] :
                Handle(ctl, op, tok, g, NoBody, out)
  /\ UNCHANGED <<clock, schema, serviceRev, tokens, inflight>>

\* a route with no guard
Open == [pass |-> TRUE, status |-> 0, message |-> NoMsg, user |-> NoUser,
         steps |-> <<>>]

\* request bodies; an email of a body is one in use at the start or a free one
BodyEmails == {"a@x.com", "d@x.com"}
CreateUserDtos ==
  [email : BodyEmails, password : {"pw111"}, role : UserRole \cup {NoRole}]
\* bodies of PUT /users/:id: no field, one field, or all three
UpdateUserDtos ==
  { d \in [email : BodyEmails \cup {""}, password : {"", "pw222"},
           role : {NoRole, ADMIN, ATTENDEE}] :
      \/ Cardinality({f \in {"email", "password", "role"} : d[f] # ""}) <= 1
      \/ d = [email |-> "d@x.com", password |-> "pw222", role |-> ADMIN] }
LoginUserDtos == [email : Emails, password : Passwords]
CreateEventDtos == [title : Titles]
UpdateEventDtos == [title : Titles \cup {""}, other : BOOLEAN]
CreateRegistrationDtos == [userId : UserIds, eventId : EventIds]
UpdateRegistrationDtos ==
  [userId : UserIds \cup {Undefined}, eventId : EventIds \cup {Undefined}]

\* POST /auth/register
AuthRegister ==
  /\ served < MaxRequests
  /\ served' = served + 1
  /\ \E data \in CreateUserDtos :
       Handle("auth", "register", NoToken, Open, data,
              AuthService_register(data))
  /\ UNCHANGED <<clock, schema, serviceRev, tokens, inflight>>

\* POST /auth/login; the client keeps the token, dropping an older one when
\* it holds MaxTokens already
AuthLogin ==
  /\ served < MaxRequests
  /\ served' = served + 1
  /\ \E data \in LoginUserDtos :
       LET out == AuthService_login(data) IN
       /\ Handle("auth", "login", NoToken, Open,
                 [email |-> data.email, password |-> data.password,
                  role |-> NoRole], out)
       /\ IF out.token = NoToken THEN tokens' = tokens
          ELSE IF Cardinality(tokens \cup {out.token}) <= MaxTokens
            THEN tokens' = tokens \cup {out.token}
            ELSE \E old \in tokens :
                   tokens' = (tokens \ {old}) \cup {out.token}
  /\ UNCHANGED <<clock, schema, serviceRev, inflight>>

\* UsersController
UsersController_create(user, dto) == UsersService_create(dto)
UsersController_findAll(user, none) == UsersService_findAll
UsersController_findOne(user, id) == UsersService_findOne(id)
UsersController_update(user, in) == UsersService_update(in.id, in.dto)
UsersController_remove(user, id) == UsersService_remove(id)

\* POST /users
UsersCreate ==
  Route("users", "create", UsersControllerRoles.create,
        [user \in Callers |->
           {UsersController_create(user, input) : input \in CreateUserDtos}])
\* GET /users
UsersFindAll ==
  Route("users", "findAll", UsersControllerRoles.findAll,
        [user \in Callers |->
           {UsersController_findAll(user, input) : input \in {0}}])
\* GET /users/:id
UsersFindOne ==
  Route("users", "findOne", UsersControllerRoles.findOne,
        [user \in Callers |->
           {UsersController_findOne(user, input) : input \in UserIds}])
\* PUT /users/:id
UsersUpdate ==
  Route("users", "update", UsersControllerRoles.update,
        [user \in Callers |->
           {UsersController_update(user, input) :
              input \in [id : UserIds, dto : UpdateUserDtos]}])
\* DELETE /users/:id
UsersRemove ==
  Route("users", "remove", UsersControllerRoles.remove,
        [user \in Callers |->
           {UsersController_remove(user, input) : input \in UserIds}])

\* EventsAppController; update rejects a body with no field before the
\* service is called
EventsAppController_getEvents(user, none) == EventsAppService_findAll
EventsAppController_getEventById(user, id) == EventsAppService_findOne(id)
EventsAppController_create(user, dto) == EventsAppService_create(dto)
EventsAppController_update(user, in) ==
  IF in.dto.title = "" /\ ~in.dto.other
    THEN Throw(400, Msg("Debe enviar al menos un campo para actualizar.",
                        0, NoRole, <<>>))
    ELSE EventsAppService_update(in.id, in.dto)
EventsAppController_remove(user, id) == EventsAppService_remove(id)

\* GET /eventsapp
EventsGetEvents ==
  Route("eventsapp", "getEvents", EventsAppControllerRoles.getEvents,
        [user \in Callers |->
           {EventsAppController_getEvents(user, input) : input \in {0}}])
\* GET /eventsapp/:id
EventsGetEventById ==
  Route("eventsapp", "getEventById", EventsAppControllerRoles.getEventById,
        [user \in Callers |->
           {EventsAppController_getEventById(user, input) :
              input \in EventIds}])
\* POST /eventsapp
EventsCreate ==
  Route("eventsapp", "create", EventsAppControllerRoles.create,
        [user \in Callers |->
           {EventsAppController_create(user, input) :
              input \in CreateEventDtos}])
\* PUT /eventsapp/:id
EventsUpdate ==
  Route("eventsapp", "update", EventsAppControllerRoles.update,
        [user \in Callers |->
           {EventsAppController_update(user, input) :
              input \in [id : EventIds, dto : UpdateEventDtos]}])
\* DELETE /eventsapp/:id
EventsRemove ==
  Route("eventsapp", "remove", EventsAppControllerRoles.remove,
        [user \in Callers |->
           {EventsAppController_remove(user, input) : input \in EventIds}])

\* RegistrationsController; findAll passes req.user to the service
RegistrationsController_create(user, dto) == RegistrationsService_create(dto)
RegistrationsController_findAll(user, none) ==
  RegistrationsService_findAll(user)
RegistrationsController_findOne(user, id) == RegistrationsService_findOne(id)
\* update: the controller of part_010 rejects a body with no field before
\* the service is called, the one of the named file calls the service
RegistrationsController_update(user, in) ==
  IF /\ serviceRev = RevByRole
     /\ in.dto.userId = Undefined /\ in.dto.eventId = Undefined
    THEN Throw(400, Msg("Debe enviar al menos un campo para actualizar.",
                        0, NoRole, <<>>))
    ELSE RegistrationsService_update(in.id, in.dto)
RegistrationsController_remove(user, id) == RegistrationsService_remove(id)

\* POST /registrations
RegistrationsCreate ==
  Route("registrations", "create", RegistrationsControllerRoles.create,
        [user \in Callers |->
           {RegistrationsController_create(user, input) :
              input \in CreateRegistrationDtos}])
\* GET /registrations
RegistrationsFindAll ==
  Route("registrations", "findAll", RegistrationsControllerRoles.findAll,
        [user \in Callers |->
           {RegistrationsController_findAll(user, input) : input \in {0}}])
\* GET /registrations/:id
RegistrationsFindOne ==
  Route("registrations", "findOne", RegistrationsControllerRoles.findOne,
        [user \in Callers |->
           {RegistrationsController_findOne(user, input) : input \in RegIds}])
\* PUT /registrations/:id
RegistrationsUpdate ==
  Route("registrations", "update", RegistrationsControllerRoles.update,
        [user \in Callers |->
           {RegistrationsController_update(user, input) :
              input \in [id : RegIds, dto : UpdateRegistrationDtos]}])
\* DELETE /registrations/:id
RegistrationsRemove ==
  Route("registrations", "remove", RegistrationsControllerRoles.remove,
        [user \in Callers |->
           {RegistrationsController_remove(user, input) : input \in RegIds}])

\* The deployment after its first session: three accounts made through
\* POST /auth/register, one per role, each logged in once at time 0; the
\* admin has created one event and registered the attendee to it.
Init ==
  /\ users = (1 :> [email |-> "a@x.com", password |-> bcryptHash("pw111"),
                    role |-> ADMIN])
           @@ (2 :> [email |-> "b@x.com", password |-> bcryptHash("pw111"),
                    role |-> ORGANIZER])
           @@ (3 :> [email |-> "c@x.com", password |-> bcryptHash("pw111"),
                    role |-> ATTENDEE])
  /\ events = (1 :> [title |-> "Expo", capacity |-> 1])
  /\ registrations = (1 :> [user |-> 3, event |-> 1, registeredAt |-> 0])
  /\ nextUserId = 4 /\ nextEventId = 2 /\ nextRegId = 2
  /\ clock = 0
  /\ tokens = {signAsync([sub |-> i, email |-> users[i].email,
                           role |-> users[i].role], 0) : i \in {1, 2, 3}}
  /\ schema \in Schemas
  /\ serviceRev \in ServiceRevs
  /\ served = 0
  /\ resp = Response("", "", 0, NoMsg, FALSE, NoBody, NoGuards(NoToken), {},
                     NoToken, "")
  /\ inflight = {}

\* time passes between two requests
Tick ==
  /\ clock < MaxClock
  /\ served < MaxRequests
  /\ clock' = clock + 1
  /\ UNCHANGED <<store, tokens, schema, serviceRev, served, resp, inflight>>

Next ==
  \/ Tick
  \/ AuthRegister
  \/ AuthLogin
  \/ UsersCreate
  \/ UsersFindAll
  \/ UsersFindOne
  \/ UsersUpdate
  \/ UsersRemove
  \/ EventsGetEvents
  \/ EventsGetEventById
  \/ EventsCreate
  \/ EventsUpdate
  \/ EventsRemove
  \/ RegistrationsCreate
  \/ RegistrationsFindAll
  \/ RegistrationsFindOne
  \/ RegistrationsUpdate
  \/ RegistrationsRemove

Spec == Init /\ [][Next]_vars

\* ------------------------------------------------- the role guard by itself
\* reflector.getAllAndOverride(ROLES_KEY, [handler, class]) for a route
RequiredRoles(ctl, op) ==
  IF ctl = "users" THEN UsersControllerRoles[op]
  ELSE IF ctl = "eventsapp" THEN EventsAppControllerRoles[op]
  ELSE IF ctl = "registrations" THEN RegistrationsControllerRoles[op]
  ELSE NoRolesMetadata

\* the metadata a handler can carry
DeclaredMetadata ==
  {NoRolesMetadata}
    \cup {UsersControllerRoles[o] : o \in DOMAIN UsersControllerRoles}
    \cup {EventsAppControllerRoles[o] : o \in DOMAIN EventsAppControllerRoles}
    \cup {RegistrationsControllerRoles[o] :
            o \in DOMAIN RegistrationsControllerRoles}

\* what request.user can hold when a guard is entered
Identities ==
  {NoUser} \cup [userId : UserIds, email : Emails, role : UserRole]

\* RolesGuard.canActivate(context) entered with this metadata and this
\* request.user, no other guard before it
RolesGuardAlone ==
  /\ served < MaxRequests
  /\ served' = served + 1
  /\ \E requiredRoles \in DeclaredMetadata, user \in Identities :
       LET r == canActivate(requiredRoles, user) IN
       resp' = Response("guard", "canActivate", r.status, r.message, r.ok,
                        NoBody, [steps |-> <<"RolesGuard">>, user |-> user,
                         tok |-> NoToken], {}, NoToken, "")
  /\ UNCHANGED <<store, clock, tokens, schema, serviceRev, inflight>>

SpecGuard == Init /\ [][RolesGuardAlone]_vars

\* ------------------------------------------------------------------ claims
GuardedControllers == {"users", "eventsapp", "registrations"}

\* C1: on every role-restricted route, a request whose attached identity has
\* a role outside the route's declared roles is answered 403 with a message
\* carrying that role and the declared roles; the controller method is not
\* entered and no user, event or registration row changes.
C1_WrongRoleForbidden ==
  [][ ( /\ served' # served
        /\ resp'.ctl \in GuardedControllers
        /\ resp'.user # NoUser
        /\ ~Includes(RequiredRoles(resp'.ctl, resp'.op).roles,
                     resp'.user.role) )
      => /\ resp'.status = 403
         /\ resp'.message.rol = resp'.user.role
         /\ resp'.message.roles = RequiredRoles(resp'.ctl, resp'.op).roles
         /\ ~resp'.ran
         /\ UNCHANGED store ]_vars

\* an attendee was refused a /users route, told its role and the one required
C1_AttendeeRefused ==
  /\ resp.ctl = "users"
  /\ resp.user.role = ATTENDEE
  /\ resp.status = 403
  /\ resp.message.rol = ATTENDEE
  /\ resp.message.roles = <<ADMIN>>
  /\ ~resp.ran

\* C2: in every reachable state each stored registration references a user
\* row and an event row that both exist.
C2_RegistrationsReferenceExistingRows ==
  \A r \in DOMAIN registrations :
    /\ registrations[r].user \in DOMAIN users
    /\ registrations[r].event \in DOMAIN events

\* DELETE /users/:id succeeded and left a registration with no user
C2_HalfNullRegistration ==
  /\ resp.ctl = "users" /\ resp.op = "remove" /\ resp.status = 200
  /\ \E r \in DOMAIN registrations :
       registrations[r].user = NULL /\ registrations[r].event \in DOMAIN events

\* C3: GET /registrations answers an attendee with exactly the registrations
\* whose user is the caller, and an admin or organizer with all of them.
C3_ListingByRole ==
  ( /\ resp.ctl = "registrations" /\ resp.op = "findAll"
    /\ resp.ran /\ resp.status = 200 )
  => resp.data =
       IF resp.user.role = ATTENDEE
         THEN {r \in DOMAIN registrations :
                 registrations[r].user = resp.user.userId}
         ELSE DOMAIN registrations

\* an attendee's listing holds a registration of somebody else
C3_AttendeeSeesOthers ==
  /\ resp.ctl = "registrations" /\ resp.op = "findAll" /\ resp.status = 200
  /\ resp.user.role = ATTENDEE
  /\ \E r \in resp.data : registrations[r].user # resp.user.userId

\* C4: POST /registrations either finds the user or the event missing,
\* answers 404 naming the missing row and changes no row, or stores a
\* registration whose user and event both exist: a body with a missing
\* userId or eventId persists nothing.
C4_MissingRowNotFound ==
  [][ ( /\ served' # served
        /\ resp'.ctl = "registrations" /\ resp'.op = "create" /\ resp'.ran )
      => \/ /\ resp'.status = 404
            /\ \/ \E i \in UserIds \ DOMAIN users :
                    resp'.message = UserNotFound(i)
               \/ \E e \in EventIds \ DOMAIN events :
                    resp'.message = EventNotFound(e)
            /\ UNCHANGED store
         \/ /\ resp'.status = 201
            /\ users' = users /\ events' = events
            /\ \E r \in DOMAIN registrations' \ DOMAIN registrations :
                 /\ registrations'[r].user \in DOMAIN users
                 /\ registrations'[r].event \in DOMAIN events
                 /\ \A q \in DOMAIN registrations :
                      registrations'[q] = registrations[q] ]_vars

\* a create naming an event that does not exist was answered 404
C4_EventMissing ==
  /\ resp.ctl = "registrations" /\ resp.op = "create" /\ resp.ran
  /\ resp.status = 404
  /\ \E e \in EventIds \ DOMAIN events : resp.message = EventNotFound(e)

\* C5: on every guarded route the token is verified before the roles are
\* looked at: with no bearer token, a bad signature or an expired token the
\* answer is 401 from JwtAuthGuard alone, the controller method is not
\* entered and nothing is written; otherwise request.user is {userId: sub,
\* email, role} of the token, and that is the identity RolesGuard judges.
C5_TokenCheckedBeforeRoles ==
  [][ (served' # served /\ resp'.ctl \in GuardedControllers)
      => LET tok == resp'.tok IN
         IF tok = NoToken \/ tok.sig # "good" \/ tok.exp <= clock
           THEN /\ resp'.status = 401
                /\ ~resp'.ran
                /\ resp'.steps = <<"JwtAuthGuard">>
                /\ UNCHANGED store
           ELSE /\ resp'.steps = <<"JwtAuthGuard", "RolesGuard">>
                /\ resp'.user = [userId |-> tok.sub, email |-> tok.email,
                                 role |-> tok.role]
                /\ resp'.status # 401
                /\ (~resp'.ran => /\ resp'.status = 403
                                  /\ resp'.message.rol = tok.role) ]_vars

\* a token that was issued by login and has expired was answered 401
C5_ExpiredRejected ==
  /\ resp.ctl \in GuardedControllers
  /\ resp.tok.sig = "good" /\ resp.tok.exp <= clock
  /\ resp.status = 401
  /\ ~resp.ran

\* C6 (as amended): a registrations route is entered by an authenticated
\* caller exactly when its role is: admin or organizer for create, update
\* and the read of one registration by id; admin for delete; any of the
\* three roles for the list.
C6_RegistrationRoles ==
  (resp.ctl = "registrations" /\ resp.user # NoUser)
  => (resp.ran <=>
        resp.user.role \in
          [create  |-> {ADMIN, ORGANIZER},
           update  |-> {ADMIN, ORGANIZER},
           remove  |-> {ADMIN},
           findAll |-> {ADMIN, ORGANIZER, ATTENDEE},
           findOne |-> {ADMIN, ORGANIZER}][resp.op])

\* an attendee asked for one registration by id and was refused
C6_AttendeeReadByIdRefused ==
  /\ resp.ctl = "registrations" /\ resp.op = "findOne"
  /\ resp.user.role = ATTENDEE
  /\ resp.status = 403 /\ ~resp.ran

\* C6 as stated: the same, with both reads (the list and the read by id)
\* open to the three roles.
C6_ReadsOpenToAll ==
  (resp.ctl = "registrations" /\ resp.user # NoUser)
  => (resp.ran <=>
        resp.user.role \in
          [create  |-> {ADMIN, ORGANIZER},
           update  |-> {ADMIN, ORGANIZER},
           remove  |-> {ADMIN},
           findAll |-> {ADMIN, ORGANIZER, ATTENDEE},
           findOne |-> {ADMIN, ORGANIZER, ATTENDEE}][resp.op])

C8_NoIdentityUnauthenticated ==
  (resp.steps = <<"RolesGuard">> /\ resp.user = NoUser /\ ~resp.ran)
  => resp.status = 401

\* RolesGuard refused a request with no identity with status 403
C8_NoIdentityForbidden ==
  /\ resp.steps = <<"RolesGuard">> /\ resp.user = NoUser /\ ~resp.ran
  /\ resp.status = 403
  /\ resp.message.text = "Usuario no autenticado."

\* C9: POST /auth/register either answers 400 "El correo ya esta registrado"
\* and changes no row, or answers 201 and adds one row whose email no row
\* had before, every earlier row unchanged: an email already in the table
\* never gets a second row and never changes the row that holds it.
C9_DuplicateEmailRejected ==
  [][ (served' # served /\ resp'.ctl = "auth" /\ resp'.op = "register")
      => \/ /\ resp'.status = 400
            /\ resp'.message.text = "El correo ya esta registrado"
            /\ UNCHANGED store
         \/ /\ resp'.status = 201
            /\ Cardinality(DOMAIN users') = Cardinality(DOMAIN users) + 1
            /\ \A j \in DOMAIN users : users'[j] = users[j]
            /\ \A i \in DOMAIN users' \ DOMAIN users :
                 \A j \in DOMAIN users : users[j].email # users'[i].email ]_vars

\* a register was refused for its email while the three accounts stood
C9_RegisterRefused ==
  /\ resp.ctl = "auth" /\ resp.op = "register"
  /\ resp.status = 400
  /\ UserByEmail("a@x.com") = {1}
  /\ Cardinality(DOMAIN users) = 3

\* C10: a login that fails, for an unknown email or for a wrong password,
\* is answered with one and the same status and message, whichever the
\* reason, and carries no token.
C10_LoginFailuresAlike ==
  (resp.ctl = "auth" /\ resp.op = "login")
  => IF resp.status = 201
       THEN resp.cause = "" /\ resp.token # NoToken
       ELSE /\ resp.cause \in {"unknown email", "wrong password"}
            /\ resp.status = 401
            /\ resp.message = Msg("Las credenciales son invalidas", 0,
                                  NoRole, <<>>)
            /\ resp.data = {}
            /\ resp.token = NoToken

\* a login with a registered email and the wrong password was refused
C10_WrongPasswordRefused ==
  /\ resp.ctl = "auth" /\ resp.op = "login"
  /\ resp.cause = "wrong password"
  /\ resp.status = 401

C12_ExpiredNeverAccepted ==
  [][ /\ clock' >= clock
      /\ ( /\ served' # served
           /\ resp'.ctl = "auth" /\ resp'.op = "login" /\ resp'.status = 201 )
         => resp'.token.exp = clock + ExpiresIn
      /\ ( /\ served' # served
           /\ resp'.ctl \in GuardedControllers
           /\ resp'.tok.sig = "good"
           /\ resp'.tok.exp <= clock )
         => /\ resp'.status = 401
            /\ ~resp'.ran
            /\ UNCHANGED store ]_vars

\* the admin's token, past its expiry, was refused on a /users route
C12_ExpiredAdminRefused ==
  /\ resp.ctl = "users"
  /\ resp.tok.sig = "good" /\ resp.tok.role = ADMIN
  /\ resp.tok.exp <= clock
  /\ resp.status = 401 /\ ~resp.ran

\* C13: on every guarded route a well-signed, unexpired token is accepted
\* with the user id, email and role written in it, and the role check is
\* made on that role, also when the user it names has since been deleted or
\* has another role in the table.
C13_NoRevocation ==
  [][ ( /\ served' # served
        /\ resp'.ctl \in GuardedControllers
        /\ resp'.tok.sig = "good"
        /\ clock < resp'.tok.exp
        /\ \/ resp'.tok.sub \notin DOMAIN users
           \/ users[resp'.tok.sub].role # resp'.tok.role )
      => /\ resp'.status # 401
         /\ resp'.user = [userId |-> resp'.tok.sub,
                          email |-> resp'.tok.email,
                          role |-> resp'.tok.role]
         /\ resp'.ran <=>
              Includes(RequiredRoles(resp'.ctl, resp'.op).roles,
                       resp'.tok.role) ]_vars

\* the organizer's token entered a controller method although its user row
\* is gone
C13_DeletedUserStillServed ==
  /\ resp.ctl \in GuardedControllers
  /\ resp.ran
  /\ resp.tok.role = ORGANIZER
  /\ resp.user.userId = resp.tok.sub
  /\ resp.tok.sub \notin DOMAIN users

\* ------------------------------------- the registration update by itself
\* RegistrationsController.update(id, dto) called with these arguments, the
\* response keeping them
RegistrationsUpdateCall ==
  /\ served < MaxRequests
  /\ served' = served + 1
  /\ \E id \in RegIds, dto \in UpdateRegistrationDtos :
       Handle("registrations", "update", NoToken, Open,
              [id |-> id, dto |-> dto],
              RegistrationsController_update(NoUser, [id |-> id, dto |-> dto]))
  /\ UNCHANGED <<clock, schema, serviceRev, tokens, inflight>>

\* the update among deletes of users and events
SpecRegistrationsUpdate ==
  Init /\ [][RegistrationsUpdateCall \/ UsersRemove \/ EventsRemove]_vars

\* C14: an update of a stored registration that names a user or an event
\* that does not exist is answered 404 naming that row, and the stored
\* registration keeps its user and its event, also when the other id it
\* names exists.
C14_UpdateValidatesEachField ==
  [][ ( /\ served' # served
        /\ resp'.ctl = "registrations" /\ resp'.op = "update"
        /\ resp'.body.id \in DOMAIN registrations
        /\ \/ resp'.body.dto.userId \notin DOMAIN users \cup {Undefined}
           \/ resp'.body.dto.eventId \notin DOMAIN events \cup {Undefined} )
      => /\ resp'.status = 404
         /\ resp'.message =
              IF resp'.body.dto.userId \notin DOMAIN users \cup {Undefined}
                THEN UserNotFound(resp'.body.dto.userId)
                ELSE EventNotFound(resp'.body.dto.eventId)
         /\ registrations'[resp'.body.id] = registrations[resp'.body.id]
         /\ UNCHANGED store ]_vars

\* an update naming another user, who exists, and an event that does not
\* was refused, and the registration still has its first user
C14_ValidUserMissingEvent ==
  /\ resp.ctl = "registrations" /\ resp.op = "update"
  /\ resp.body.dto.userId \in DOMAIN users
  /\ resp.body.dto.eventId \notin DOMAIN events \cup {Undefined}
  /\ resp.status = 404
  /\ resp.body.id \in DOMAIN registrations
  /\ registrations[resp.body.id].user # resp.body.dto.userId

\* C15: an update of a registration whose body has no field is answered 400
\* by the controller.
C15_ZeroFieldsBadRequest ==
  ( /\ resp.ctl = "registrations" /\ resp.op = "update"
    /\ resp.body.dto.userId = Undefined
    /\ resp.body.dto.eventId = Undefined )
  => resp.status = 400

\* an update with no field reached the service and was answered 200
C15_ZeroFieldsAccepted ==
  /\ resp.ctl = "registrations" /\ resp.op = "update"
  /\ resp.body.dto.userId = Undefined
  /\ resp.body.dto.eventId = Undefined
  /\ resp.body.id \in DOMAIN registrations
  /\ resp.status = 200

\* ------------------------------------------ the updates of unique fields
\* EventsAppController.update(id, dto) called with these arguments, the
\* response keeping them
EventsUpdateCall ==
  /\ served < MaxRequests
  /\ served' = served + 1
  /\ \E id \in EventIds, dto \in UpdateEventDtos :
       Handle("eventsapp", "update", NoToken, Open,
              [id |-> id, dto |-> dto],
              EventsAppController_update(NoUser, [id |-> id, dto |-> dto]))
  /\ UNCHANGED <<clock, schema, serviceRev, tokens, inflight>>

\* UsersController.update(id, dto) called with these arguments, the response
\* keeping them
UsersUpdateCall ==
  /\ served < MaxRequests
  /\ served' = served + 1
  /\ \E id \in UserIds, dto \in UpdateUserDtos :
       Handle("users", "update", NoToken, Open,
              [id |-> id, dto |-> dto],
              UsersController_update(NoUser, [id |-> id, dto |-> dto]))
  /\ UNCHANGED <<clock, schema, serviceRev, tokens, inflight>>

\* the two updates after the creation of events
SpecUniqueOnUpdate ==
  Init /\ [][EventsCreate \/ EventsUpdateCall \/ UsersUpdateCall]_vars

\* C16: an update that sets the title of an event to one another event
\* holds, or the email of a user to one another user holds, is answered 400
\* by the service and the row is as it was.
C16_UpdateChecksUniqueField ==
  [][ ( /\ served' # served /\ resp'.op = "update"
        /\ resp'.body.id \in DOMAIN (IF resp'.ctl = "users" THEN users
                                                           ELSE events)
        /\ IF resp'.ctl = "users"
             THEN UserByEmail(resp'.body.dto.email) \ {resp'.body.id} # {}
             ELSE EventByTitle(resp'.body.dto.title) \ {resp'.body.id} # {} )
      => resp'.status = 400 /\ UNCHANGED store ]_vars

\* an update gave an event the title of another one and was answered 200
C16_TwoEventsOneTitle ==
  /\ resp.ctl = "eventsapp" /\ resp.op = "update" /\ resp.status = 200
  /\ \E other \in DOMAIN events \ {resp.body.id} :
       /\ resp.body.id \in DOMAIN events
       /\ events[other].title = resp.body.dto.title
       /\ events[resp.body.id].title = events[other].title

\* ------------------------------------------------- concurrent creations
\* Each await of a service method is a point where another request runs.
\* AuthService.register up to its findOne({ where: { email } }): the request
\* that finds the email is answered 400, the other one goes on to its INSERT
RegisterLookup ==
  /\ served < MaxRequests
  /\ served' = served + 1
  /\ \E data \in CreateUserDtos :
       IF UserByEmail(data.email) # {}
         THEN /\ Handle("auth", "register", NoToken, Open, data,
                        AuthService_register(data))
              /\ UNCHANGED inflight
         ELSE /\ inflight' = inflight \cup
                   {[op |-> "register", n |-> served, user |-> data,
                     title |-> ""]}
              /\ UNCHANGED <<store, resp>>
  /\ UNCHANGED <<clock, schema, serviceRev, tokens>>

\* AuthService.register from bcrypt.hash to userRepo.save
RegisterSave ==
  /\ \E r \in inflight :
       /\ r.op = "register"
       /\ Handle("auth", "register", NoToken, Open, r.user,
                 InsertUser([email |-> r.user.email,
                             password |-> bcryptHash(r.user.password),
                             role |-> r.user.role]))
       /\ inflight' = inflight \ {r}
  /\ UNCHANGED <<clock, schema, serviceRev, tokens, served>>

\* EventsAppService.create up to its findOne({ where: { title } })
EventLookup ==
  /\ served < MaxRequests
  /\ served' = served + 1
  /\ \E data \in CreateEventDtos :
       IF EventByTitle(data.title) # {}
         THEN /\ Handle("eventsapp", "create", NoToken, Open, NoBody,
                        EventsAppService_create(data))
              /\ UNCHANGED inflight
         ELSE /\ inflight' = inflight \cup
                   {[op |-> "create", n |-> served, user |-> NoBody,
                     title |-> data.title]}
              /\ UNCHANGED <<store, resp>>
  /\ UNCHANGED <<clock, schema, serviceRev, tokens>>

\* EventsAppService.create from eventRepository.create to save
EventSave ==
  /\ \E r \in inflight :
       /\ r.op = "create"
       /\ Handle("eventsapp", "create", NoToken, Open, NoBody,
                 InsertEvent([title |-> r.title,
                              capacity |-> DefaultCapacity]))
       /\ inflight' = inflight \ {r}
  /\ UNCHANGED <<clock, schema, serviceRev, tokens, served>>

\* registrations and event creations running together
SpecConcurrentCreate ==
  Init /\ [][RegisterLookup \/ RegisterSave \/ EventLookup \/ EventSave]_vars

\* C17: whatever the interleaving of creations, no two users have one email
\* and no two events have one title.
C17_UniqueFieldsNeverShared ==
  /\ \A i, j \in DOMAIN users : users[i].email = users[j].email => i = j
  /\ \A i, j \in DOMAIN events : events[i].title = events[j].title => i = j

\* two creations with one title both passed the lookup and both were saved
C17_RacedEventsShareTitle ==
  /\ resp.ctl = "eventsapp" /\ resp.op = "create" /\ resp.status = 201
  /\ inflight = {}
  /\ \E i, j \in DOMAIN events : i # j /\ events[i].title = events[j].title

\* two registrations with one email both passed the lookup, and the second
\* INSERT was refused by the unique index
C17_RacedRegisterRefused ==
  /\ resp.ctl = "auth" /\ resp.op = "register" /\ resp.status = 500
  /\ \E i \in DOMAIN users : users[i].email = resp.body.email

\* --------------------------------------------------- the deletes by id
\* UsersController.remove(id) called with this id, the response keeping it
UsersRemoveCall ==
  /\ served < MaxRequests
  /\ served' = served + 1
  /\ \E id \in UserIds :
       Handle("users", "remove", NoToken, Open, [id |-> id],
              UsersController_remove(NoUser, id))
  /\ UNCHANGED <<clock, schema, serviceRev, tokens, inflight>>

\* EventsAppController.remove(id) called with this id
EventsRemoveCall ==
  /\ served < MaxRequests
  /\ served' = served + 1
  /\ \E id \in EventIds :
       Handle("eventsapp", "remove", NoToken, Open, [id |-> id],
              EventsAppController_remove(NoUser, id))
  /\ UNCHANGED <<clock, schema, serviceRev, tokens, inflight>>

\* RegistrationsController.remove(id) called with this id
RegistrationsRemoveCall ==
  /\ served < MaxRequests
  /\ served' = served + 1
  /\ \E id \in RegIds :
       Handle("registrations", "remove", NoToken, Open, [id |-> id],
              RegistrationsController_remove(NoUser, id))
  /\ UNCHANGED <<clock, schema, serviceRev, tokens, inflight>>

\* the three deletes after creations of registrations
SpecRemove ==
  Init /\ [][RegistrationsCreate \/ UsersRemoveCall \/ EventsRemoveCall
               \/ RegistrationsRemoveCall]_vars

\* the table a controller deletes from
TableOf(ctl) ==
  IF ctl = "users" THEN users
  ELSE IF ctl = "eventsapp" THEN events ELSE registrations

\* C18: a delete of a user, an event or a registration whose id is not in
\* the table is answered 404 and no row changes.
C18_DeleteMissingNotFound ==
  [][ ( /\ served' # served /\ resp'.op = "remove"
        /\ resp'.body.id \notin DOMAIN TableOf(resp'.ctl) )
      => resp'.status = 404 /\ UNCHANGED store ]_vars

\* a delete of a registration that is not stored was answered 200
C18_MissingRegistrationAccepted ==
  /\ resp.ctl = "registrations" /\ resp.op = "remove"
  /\ resp.status = 200
  /\ resp.data = {}
  /\ resp.message = Msg("No se encontro ningun registro con ID",
                        resp.body.id, NoRole, <<>>)

\* C19: a delete of a user, an event or a registration whose id is in the
\* table removes that row; every other row of the three tables is still
\* there as it was.
C19_DeleteRemovesOnlyThatRow ==
  [][ ( /\ served' # served /\ resp'.op = "remove"
        /\ resp'.body.id \in DOMAIN TableOf(resp'.ctl) )
      => LET id == resp'.body.id IN
         /\ users' = IF resp'.ctl = "users" THEN Drop(users, id) ELSE users
         /\ events' = IF resp'.ctl = "eventsapp" THEN Drop(events, id)
                                                 ELSE events
         /\ registrations' = IF resp'.ctl = "registrations"
                               THEN Drop(registrations, id)
                               ELSE registrations ]_vars

\* the delete of an event took the registrations for it away
C19_EventDeleteCascaded ==
  /\ resp.ctl = "eventsapp" /\ resp.op = "remove" /\ resp.status = 200
  /\ resp.body.id \notin DOMAIN events
  /\ 1 \notin DOMAIN registrations

\* the delete of a user left a registration with no user
C19_UserDeleteNulledRegistration ==
  /\ resp.ctl = "users" /\ resp.op = "remove" /\ resp.status = 200
  /\ \E r \in DOMAIN registrations : registrations[r].user = NULL

\* the delete of a row that a registration refers to was refused
C19_ReferencedDeleteRefused ==
  /\ resp.op = "remove" /\ resp.status = 500
  /\ resp.body.id \in DOMAIN TableOf(resp.ctl)

\* ------------------------------------------------- the stored passwords
\* UsersController.create(dto) called with this body, the response keeping
\* it
UsersCreateCall ==
  /\ served < MaxRequests
  /\ served' = served + 1
  /\ \E dto \in CreateUserDtos :
       Handle("users", "create", NoToken, Open, dto,
              UsersController_create(NoUser, dto))
  /\ UNCHANGED <<clock, schema, serviceRev, tokens, inflight>>

\* the three operations that write a password
SpecPasswords ==
  Init /\ [][AuthRegister \/ UsersCreateCall \/ UsersUpdateCall]_vars

KeyPassword == <<"p", "a", "s", "s", "w", "o", "r", "d">>
KeyPassWord == <<"P", "a", "s", "s", "W", "o", "r", "d">>
KeyToken    == <<"t", "o", "k", "e", "n">>
KeySecret   == <<"s", "e", "c", "r", "e", "t">>
KeyId       == <<"i", "d">>
KeyTOKEN    == <<"T", "O", "K", "E", "N">>
Keys        == {KeyPassword, KeyPassWord, KeyTOKEN, KeyId}

\* String.prototype.toLowerCase on the letters the names are made of
LowerOf(c) ==
  CASE c = "P" -> "p" [] c = "W" -> "w" [] c = "T" -> "t" [] c = "O" -> "o"
    [] c = "K" -> "k" [] c = "E" -> "e" [] c = "N" -> "n" [] OTHER -> c
toLowerCase(key) == [i \in DOMAIN key |-> LowerOf(key[i])]

\* the values a handler returns: strings, Dates, arrays, objects
JsonString(v)  == [type |-> "string", v |-> v]
JsonDate       == [type |-> "Date"]
JsonArray(xs)  == [type |-> "array", items |-> xs]
JsonObject(es) == [type |-> "object", entries |-> es]
Entry(k, v)    == [key |-> k, value |-> v]
Primitives     == {JsonString("x"), JsonDate}

\* how deep arrays and objects are nested in a value
RECURSIVE Depth(_)
Depth(v) ==
  IF v.type = "array"
    THEN IF v.items = <<>> THEN 1 ELSE 1 + Depth(v.items[1])
  ELSE IF v.type = "object"
    THEN IF v.entries = <<>> THEN 1 ELSE 1 + Depth(v.entries[1].value)
  ELSE 0

\* the arrays and objects that hold v and, or not, a primitive after it
Nest(v) ==
  {JsonArray(<<>>), JsonObject(<<>>), JsonArray(<<v>>)}
  \cup {JsonArray(<<v, q>>) : q \in Primitives}
  \cup {JsonObject(<<Entry(k, v)>>) : k \in Keys}
  \cup {JsonObject(<<Entry(k, v), Entry(j, q)>>) :
          k \in Keys, j \in Keys, q \in Primitives}

\* the loop over Object.entries(data): the entries that the `continue`
\* does not skip, in their order; lower says whether the key is compared
\* in lower case
RECURSIVE Kept(_, _)
Kept(es, lower) ==
  IF es = <<>> THEN <<>>
  ELSE IF (IF lower THEN toLowerCase(es[1].key) ELSE es[1].key)
            \in {KeyPassword, KeyToken, KeySecret}
    THEN Kept(Tail(es), lower)
  ELSE <<es[1]>> \o Kept(Tail(es), lower)

\* cleanSensitiveData that compares the key as it is written
RECURSIVE cleanSensitiveData_caseSensitive(_)
cleanSensitiveData_caseSensitive(data) ==
  IF data.type = "Date" THEN JsonString("toISOString")
  ELSE IF data.type = "array"
    THEN JsonArray([i \in DOMAIN data.items |->
                      cleanSensitiveData_caseSensitive(data.items[i])])
  ELSE IF data.type = "object"
    THEN LET kept == Kept(data.entries, FALSE)
         IN  JsonObject([i \in DOMAIN kept |->
               Entry(kept[i].key,
                     cleanSensitiveData_caseSensitive(kept[i].value))])
  ELSE data

\* SanitizeResponseInterceptor.cleanSensitiveData(data)
RECURSIVE cleanSensitiveData(_)
cleanSensitiveData(data) ==
  IF data.type = "Date" THEN JsonString("toISOString")
  ELSE IF data.type = "array"
    THEN JsonArray([i \in DOMAIN data.items |->
                      cleanSensitiveData(data.items[i])])
  ELSE IF data.type = "object"
    THEN LET kept == Kept(data.entries, TRUE)
         IN  JsonObject([i \in DOMAIN kept |->
               Entry(kept[i].key, cleanSensitiveData(kept[i].value))])
  ELSE data

\* cleanSensitiveData applied to a value a handler returns: a primitive, or
\* the value of the response before nested once more; the response keeps
\* the value and the result
Sanitize ==
  /\ \E inner \in (IF resp.op = "cleanSensitiveData" THEN {resp.body}
                                                      ELSE Primitives) :
       /\ Depth(inner) < MaxDepth
       /\ \E data \in Nest(inner) \cup ({inner} \cap Primitives) :
            resp' = Response("interceptor", "cleanSensitiveData", 200, NoMsg,
                             TRUE, data, NoGuards(NoToken),
                             cleanSensitiveData(data), NoToken, "")
  /\ UNCHANGED <<store, clock, tokens, schema, serviceRev, served, inflight>>

SpecSanitize == Init /\ [][Sanitize]_vars

\* the name is "password" written in some letter case
IsPasswordKey(key) ==
  /\ Len(key) = 8
  /\ key[1] \in {"p", "P"} /\ key[2] \in {"a", "A"} /\ key[3] \in {"s", "S"}
  /\ key[4] \in {"s", "S"} /\ key[5] \in {"w", "W"} /\ key[6] \in {"o", "O"}
  /\ key[7] \in {"r", "R"} /\ key[8] \in {"d", "D"}

\* some object inside the value has a property named password
RECURSIVE HasPasswordKey(_)
HasPasswordKey(v) ==
  IF v.type = "array"
    THEN \E i \in DOMAIN v.items : HasPasswordKey(v.items[i])
  ELSE IF v.type = "object"
    THEN \E i \in DOMAIN v.entries :
           \/ IsPasswordKey(v.entries[i].key)
           \/ HasPasswordKey(v.entries[i].value)
  ELSE FALSE

\* C21: whatever value goes into cleanSensitiveData, with arrays and
\* objects nested, the value that comes out has no property named password
\* in any letter case at any depth.
C21_NoPasswordKeyInOutput ==
  resp.op = "cleanSensitiveData" => ~HasPasswordKey(resp.data)

\* an object inside an object had a property PassWord; the output has the
\* inner object, with its other property, and no password
C21_NestedMixedCaseStripped ==
  /\ resp.op = "cleanSensitiveData"
  /\ resp.body = JsonObject(<<Entry(KeyId,
                    JsonObject(<<Entry(KeyPassWord, JsonDate),
                                 Entry(KeyId, JsonDate)>>)),
                    Entry(KeyPassword, JsonString("x"))>>)
  /\ resp.data = JsonObject(<<Entry(KeyId,
                    JsonObject(<<Entry(KeyId,
                                       JsonString("toISOString"))>>))>>)

\* ------------------------------------------------ the bodies of errors
\* the controllers declared with @UseFilters(HttpExceptionFilter);
\* AuthController has no such decorator and bootstrap registers no global
\* filter
UseFilters(ctl) == ctl \in {"users", "eventsapp", "registrations"}

\* HttpExceptionFilter.catch: the payload it sends; a failure that is not an
\* HttpException is the one that carries InternalError here
HttpExceptionFilter_catch(r) ==
  [success |-> FALSE,
   statusCode |-> r.status,
   message |-> IF r.message = InternalError
                 THEN "Error interno del servidor" ELSE r.message.text,
   path |-> <<r.ctl, r.op>>,
   timestamp |-> clock]

\* what the framework sends when no filter of the application catches the
\* exception: the response of the HttpException, or its 500 body
DefaultExceptionBody(r) ==
  IF r.message = InternalError
    THEN [statusCode |-> 500, message |-> "Internal server error"]
    ELSE [statusCode |-> r.status, message |-> r.message.text,
          error |-> "HttpException name"]

\* the body of the response to a request that failed
ErrorBody(r) ==
  IF UseFilters(r.ctl) THEN HttpExceptionFilter_catch(r)
                       ELSE DefaultExceptionBody(r)

\* C22: the body of every error response, the /auth routes included, is
\* {success: false, statusCode, message, path, timestamp} with the status
\* of the response, which is 500 for a failure that is no HttpException.
C22_ErrorsNormalized ==
  resp.status >= 400 =>
    /\ DOMAIN ErrorBody(resp) =
         {"success", "statusCode", "message", "path", "timestamp"}
    /\ ErrorBody(resp).success = FALSE
    /\ ErrorBody(resp).statusCode = resp.status
    /\ resp.message = InternalError => ErrorBody(resp).statusCode = 500

\* a login with a wrong password was answered 401 with the body of the
\* framework, which has no success, path or timestamp
C22_LoginErrorNotNormalized ==
  /\ resp.ctl = "auth" /\ resp.op = "login" /\ resp.status = 401
  /\ DOMAIN ErrorBody(resp) = {"statusCode", "message", "error"}

\* an error of a controller that declares the filter has the normalized body
C22_FilteredErrorNormalized ==
  /\ resp.ctl = "users" /\ resp.status = 404
  /\ ErrorBody(resp).success = FALSE /\ ErrorBody(resp).statusCode = 404

\* ------------------------------------------- the bodies of the successes
\* the property names of the objects the handlers return
Chars(name) ==
  CASE name = "id" -> KeyId
    [] name = "password" -> KeyPassword
    [] name = "message" -> <<"m", "e", "s", "s", "a", "g", "e">>
    [] name = "user" -> <<"u", "s", "e", "r">>
    [] name = "event" -> <<"e", "v", "e", "n", "t">>
    [] name = "email" -> <<"e", "m", "a", "i", "l">>
    [] name = "role" -> <<"r", "o", "l", "e">>
    [] name = "title" -> <<"t", "i", "t", "l", "e">>
    [] name = "total" -> <<"t", "o", "t", "a", "l">>
    [] name = "data" -> <<"d", "a", "t", "a">>
    [] name = "success" -> <<"s", "u", "c", "c", "e", "s", "s">>
    [] name = "updated" -> <<"u", "p", "d", "a", "t", "e", "d">>
    [] name = "deleted" -> <<"d", "e", "l", "e", "t", "e", "d">>
    [] name = "registeredAt" ->
         <<"r", "e", "g", "i", "s", "t", "e", "r", "e", "d", "A", "t">>
    [] name = "registration" ->
         <<"r", "e", "g", "i", "s", "t", "r", "a", "t", "i", "o", "n">>
    [] name = "accessToken" ->
         <<"a", "c", "c", "e", "s", "s", "T", "o", "k", "e", "n">>

\* a string, number or boolean of no interest; null; the string that is the
\* stored bcrypt hash of a password
Scalar       == JsonString("x")
JsonNull     == [type |-> "null"]
JsonHash(h)  == [type |-> "hash", v |-> h]
Prop(name, v) == Entry(Chars(name), v)

\* the elements of a set of ids in ascending order (order: { id: 'ASC' })
RECURSIVE Ascending(_)
Ascending(ids) ==
  IF ids = {} THEN <<>>
  ELSE LET least == CHOOSE i \in ids : \A j \in ids : i <= j
       IN  <<least>> \o Ascending(ids \ {least})

\* the entities as the repositories load them: a User has its password
\* column; a relation whose row is gone is null
UserEntity(u) ==
  IF u \notin DOMAIN users THEN JsonNull
  ELSE JsonObject(<<Prop("id", Scalar), Prop("email", Scalar),
                    Prop("password", JsonHash(users[u].password)),
                    Prop("role", Scalar)>>)
EventEntity(e) ==
  IF e \notin DOMAIN events THEN JsonNull
  ELSE JsonObject(<<Prop("id", Scalar), Prop("title", Scalar)>>)
\* a registration with relations: ['user', 'event']; one that the request
\* removed is the entity loaded before the delete, with its user
RegistrationEntity(r) ==
  IF r \notin DOMAIN registrations
    THEN JsonObject(<<Prop("registeredAt", JsonDate),
                      Prop("user", JsonObject(<<Prop("id", Scalar),
                         Prop("password", JsonHash(bcryptHash("pw111")))>>)),
                      Prop("event", JsonObject(<<Prop("id", Scalar)>>))>>)
    ELSE JsonObject(<<Prop("id", Scalar), Prop("registeredAt", JsonDate),
                      Prop("user", UserEntity(registrations[r].user)),
                      Prop("event", EventEntity(registrations[r].event))>>)
\* the object the named RegistrationsService maps a registration to
RegistrationSummary ==
  JsonObject(<<Prop("id", Scalar), Prop("registeredAt", JsonDate),
               Prop("user", JsonObject(<<Prop("id", Scalar),
                                         Prop("email", Scalar)>>)),
               Prop("event", JsonObject(<<Prop("id", Scalar),
                                          Prop("title", Scalar)>>))>>)

\* what the controller method of a successful response returned, from the
\* rows its data names
Payload(r) ==
  LET ids == Ascending(r.data)
      Said(v) == JsonObject(<<Prop("message", Scalar)>> \o v)
  IN
  IF r.ctl = "auth" THEN
    IF r.op = "register"
      THEN Said(<<Prop("user", JsonObject(<<Prop("id", Scalar),
                                            Prop("email", Scalar)>>))>>)
      ELSE Said(<<Prop("user", JsonObject(<<Prop("role", Scalar)>>)),
                  Prop("accessToken", Scalar)>>)
  ELSE IF r.ctl = "users" THEN
    IF r.op = "findAll"
      THEN JsonArray([i \in DOMAIN ids |-> UserEntity(ids[i])])
    ELSE IF r.op \in {"create", "findOne"} THEN UserEntity(ids[1])
    ELSE IF r.op = "update"
      THEN Said(<<Prop("user", JsonObject(<<Prop("id", Scalar),
                     Prop("email", Scalar), Prop("role", Scalar)>>))>>)
    ELSE Said(<<>>)
  ELSE IF r.ctl = "eventsapp" THEN
    IF r.op = "getEvents"
      THEN Said(<<Prop("total", Scalar),
                  Prop("data", JsonArray([i \in DOMAIN ids |->
                                            EventEntity(ids[i])]))>>)
    ELSE IF r.op = "create" THEN EventEntity(ids[1])
    ELSE IF r.op = "update" THEN Said(<<Prop("updated", EventEntity(ids[1]))>>)
    ELSE IF r.op = "remove" THEN Said(<<>>)
    ELSE Said(<<Prop("event", EventEntity(ids[1]))>>)
  ELSE IF serviceRev = RevMapped THEN
    IF r.op = "findAll"
      THEN JsonArray([i \in DOMAIN ids |-> RegistrationSummary])
    ELSE IF r.op = "findOne" THEN RegistrationSummary
    ELSE IF r.op = "remove"
      THEN IF ids = <<>> THEN Said(<<>>)
           ELSE Said(<<Prop("deleted", JsonObject(<<Prop("id", Scalar),
                          Prop("user", Scalar), Prop("event", Scalar)>>))>>)
    ELSE Said(<<Prop("registration", RegistrationSummary)>>)
  ELSE
    IF r.op = "findAll"
      THEN JsonArray([i \in DOMAIN ids |-> RegistrationEntity(ids[i])])
      ELSE RegistrationEntity(ids[1])

\* UseInterceptors with the interceptor on no controller
UseInterceptors_none(ctl) == FALSE

\* the controllers declared with @UseInterceptors(SanitizeResponseInterceptor)
UseInterceptors(ctl) == ctl \in {"users", "eventsapp", "registrations"}

\* the names of the properties of an object
KeysOf(v) == {v.entries[i].key : i \in DOMAIN v.entries}

\* SanitizeResponseInterceptor.intercept: map((data) => ...)
intercept(data) ==
  LET sanitized == cleanSensitiveData(data) IN
  IF /\ sanitized.type = "object"
     /\ {Chars("success"), Chars("data")} \subseteq KeysOf(sanitized)
    THEN sanitized
    ELSE JsonObject(<<Prop("success", JsonString(TRUE)),
                      Prop("data", sanitized)>>)

\* the body of the response to a request that succeeded
SuccessBody(r) ==
  IF UseInterceptors(r.ctl) THEN intercept(Payload(r)) ELSE Payload(r)

Succeeded(r) == r.ran /\ r.status \in {200, 201}

\* some object inside the value has a property named password, token or
\* secret, in any letter case
RECURSIVE HasSensitiveKey(_)
HasSensitiveKey(v) ==
  IF v.type = "array"
    THEN \E i \in DOMAIN v.items : HasSensitiveKey(v.items[i])
  ELSE IF v.type = "object"
    THEN \E i \in DOMAIN v.entries :
           \/ IsPasswordKey(v.entries[i].key)
           \/ toLowerCase(v.entries[i].key) \in {KeyToken, KeySecret}
           \/ HasSensitiveKey(v.entries[i].value)
  ELSE FALSE

\* C23: the body of every success response, the /auth routes included, is
\* {success: true, data} and no object in it has a property named password,
\* token or secret.
C23_SuccessesNormalized ==
  (Succeeded(resp) /\ resp.ctl \in GuardedControllers \cup {"auth"}) =>
    LET body == SuccessBody(resp) IN
    /\ body.type = "object"
    /\ KeysOf(body) = {Chars("success"), Chars("data")}
    /\ body.entries[1] = Prop("success", JsonString(TRUE))
    /\ ~HasSensitiveKey(body)

\* a login succeeded and its body is the object AuthService.login returned,
\* with message, user and accessToken at the top
C23_LoginNotWrapped ==
  /\ resp.ctl = "auth" /\ resp.op = "login" /\ Succeeded(resp)
  /\ KeysOf(SuccessBody(resp)) =
       {Chars("message"), Chars("user"), Chars("accessToken")}

\* some value inside is the stored hash of a password
RECURSIVE HasHash(_)
HasHash(v) ==
  IF v.type = "array" THEN \E i \in DOMAIN v.items : HasHash(v.items[i])
  ELSE IF v.type = "object"
    THEN \E i \in DOMAIN v.entries : HasHash(v.entries[i].value)
  ELSE v.type = "hash"

\* C30: the body of no success response of /users, /registrations,
\* /eventsapp or /auth holds the stored hash of a password, at any depth.
C30_NoHashInResponses ==
  (Succeeded(resp) /\ resp.ctl \in GuardedControllers \cup {"auth"}) =>
    ~HasHash(SuccessBody(resp))

\* a listing of registrations returned entities whose user has the password
\* column, and the body that was sent has the users without it
C30_EmbeddedUserStripped ==
  /\ resp.ctl = "registrations" /\ resp.op = "findAll" /\ Succeeded(resp)
  /\ serviceRev = RevByRole
  /\ resp.data # {}
  /\ HasHash(Payload(resp))
  /\ ~HasHash(SuccessBody(resp))
  /\ \E r \in resp.data : registrations[r].user \in DOMAIN users

C24_OrganizerCreated ==
  /\ resp.ctl = "eventsapp" /\ resp.op = "create"
  /\ resp.user.role = ORGANIZER /\ resp.ran /\ resp.status = 201

C25_RegisterYieldsAttendee ==
  (resp.ctl = "auth" /\ resp.op = "register" /\ resp.status = 201) =>
    \A u \in resp.data : users[u].role = ATTENDEE

\* a register with role admin in its body, sent with no token, was followed
\* by a login that was given a token with the role admin
C25_SelfRegisteredAdmin ==
  /\ resp.ctl = "auth" /\ resp.op = "login" /\ resp.status = 201
  /\ resp.tok = NoToken
  /\ resp.token.role = ADMIN /\ resp.token.sig = "good"
  /\ resp.token.sub = 4 /\ resp.body.email = "d@x.com"
  /\ users[4].role = ADMIN

\* ------------------------------------- an update racing with a delete
\* RegistrationsService.update and UsersService.update up to the await of
\* their save: the row is loaded and the fields of the body are assigned to
\* the loaded entity; a request that fails before that is answered at once
UpdateLookup ==
  /\ served < MaxRequests
  /\ served' = served + 1
  /\ \E ctl \in {"registrations", "users"} :
     \E id \in (IF ctl = "users" THEN UserIds ELSE RegIds) :
     \E dto \in (IF ctl = "users" THEN UpdateUserDtos
                                  ELSE UpdateRegistrationDtos) :
       LET in  == [id |-> id, dto |-> dto]
           out == IF ctl = "users" THEN UsersController_update(NoUser, in)
                  ELSE RegistrationsController_update(NoUser, in)
       IN  IF out.status # 200
             THEN /\ Handle(ctl, "update", NoToken, Open, in, out)
                  /\ UNCHANGED inflight
             ELSE /\ inflight' = inflight \cup
                        {[op |-> "update", n |-> served, ctl |-> ctl,
                          in |-> in,
                          entity |-> IF ctl = "users"
                                       THEN out.users[id]
                                       ELSE out.registrations[id]]}
                  /\ UNCHANGED <<store, resp>>
  /\ UNCHANGED <<clock, schema, serviceRev, tokens>>

\* repository.save(entity) of an entity that has its id: TypeORM reads the
\* row of that id and issues an UPDATE if it is there and an INSERT with
\* that id if it is not; the foreign keys and the unique index apply
UpdateSave ==
  /\ \E r \in inflight :
       LET id     == r.in.id
           table  == IF r.ctl = "users" THEN users ELSE registrations
           how    == IF id \in DOMAIN table THEN "UPDATE" ELSE "INSERT"
           broken == /\ r.ctl = "registrations"
                     /\ \/ r.entity.user \notin DOMAIN users
                        \/ r.entity.event \notin DOMAIN events
           out    == IF broken THEN Throw(500, InternalError)
                     ELSE IF r.ctl = "users"
                       THEN [UpdateUser(id, r.entity) EXCEPT !.cause = how]
                     ELSE [Cur EXCEPT !.data = {id}, !.cause = how,
                             !.registrations =
                                Put(registrations, id, r.entity)]
       IN  /\ r.op = "update"
           /\ Handle(r.ctl, "update", NoToken, Open, r.in, out)
           /\ inflight' = inflight \ {r}
  /\ UNCHANGED <<clock, schema, serviceRev, tokens, served>>

\* updates and deletes of registrations and users running together
SpecConcurrentUpdate ==
  Init /\ [][UpdateLookup \/ UpdateSave \/ RegistrationsRemoveCall
               \/ UsersRemoveCall]_vars

\* C26: when the save of an update comes after a delete of the same id has
\* committed, the row of that id is absent after the save.
C26_DeletedRowStaysDeleted ==
  [][ \A r \in inflight \ inflight' :
        r.in.id \notin DOMAIN (IF r.ctl = "users" THEN users
                                                  ELSE registrations)
        => r.in.id \notin DOMAIN (IF r.ctl = "users" THEN users'
                                                     ELSE registrations')
    ]_vars

\* the update of a registration was answered 200 after its save found no
\* row of that id and inserted one: the registration is stored again
C26_DeletedRegistrationBack ==
  /\ resp.ctl = "registrations" /\ resp.op = "update"
  /\ resp.status = 200 /\ resp.cause = "INSERT"
  /\ inflight = {}
  /\ resp.body.id \in DOMAIN registrations

\* the same for a user
C26_DeletedUserBack ==
  /\ resp.ctl = "users" /\ resp.op = "update"
  /\ resp.status = 200 /\ resp.cause = "INSERT"
  /\ resp.body.id \in DOMAIN users

\* --------------------------------------- the two queries of GET /eventsapp
\* EventsAppController.getEvents up to the end of `await findAll()`
GetEventsList ==
  /\ served < MaxRequests
  /\ served' = served + 1
  /\ inflight' = inflight \cup
       {[op |-> "getEvents", n |-> served, events |-> DOMAIN events]}
  /\ UNCHANGED <<store, resp, clock, schema, serviceRev, tokens>>

\* getEvents from `await getEventsCount()` to its return { message, total,
\* data }: the number the message carries is total
GetEventsCount ==
  /\ \E r \in inflight :
       /\ r.op = "getEvents"
       /\ Handle("eventsapp", "getEvents", NoToken, Open, NoBody,
                 [Cur EXCEPT !.data = r.events,
                    !.message = Msg("Lista de eventos obtenida",
                                    Cardinality(DOMAIN events), NoRole,
                                    <<>>)])
       /\ inflight' = inflight \ {r}
  /\ UNCHANGED <<clock, schema, serviceRev, tokens, served>>

\* listings among creations and deletes of events
SpecConcurrentList ==
  Init /\ [][GetEventsList \/ GetEventsCount \/ EventsCreate
               \/ EventsRemoveCall]_vars

\* C27: in every response of GET /eventsapp, total is the number of events
\* in data, whatever creations and deletes run between its two queries.
C27_TotalMatchesData ==
  (resp.ctl = "eventsapp" /\ resp.op = "getEvents" /\ resp.status = 200)
    => resp.message.id = Cardinality(resp.data)

\* a listing holds the one event there was when it was listed, and its
\* total counts the event created before the count
C27_TotalCountsLaterEvent ==
  /\ resp.ctl = "eventsapp" /\ resp.op = "getEvents" /\ resp.status = 200
  /\ resp.data = {1}
  /\ resp.message.id = 2
  /\ DOMAIN events = {1, 2}

\* ------------------------------------------ what a registration update keeps
\* updates among creations of registrations, time passing
SpecUpdateFrame ==
  Init /\ [][RegistrationsUpdateCall \/ RegistrationsCreate \/ Tick]_vars

\* C28: an update of a registration answered 200 leaves the row under its
\* id with its registeredAt, its user and its event each either the one the
\* request names or the one it had, and changes no other registration, no
\* user and no event.
C28_UpdateChangesOnlyReferences ==
  [][ ( /\ served' # served
        /\ resp'.ctl = "registrations" /\ resp'.op = "update"
        /\ resp'.status = 200 )
      => LET id  == resp'.body.id
             dto == resp'.body.dto
         IN  /\ id \in DOMAIN registrations
             /\ DOMAIN registrations' = DOMAIN registrations
             /\ registrations'[id].registeredAt = registrations[id].registeredAt
             /\ registrations'[id].user =
                  IF dto.userId # Undefined THEN dto.userId
                                            ELSE registrations[id].user
             /\ registrations'[id].event =
                  IF dto.eventId # Undefined THEN dto.eventId
                                             ELSE registrations[id].event
             /\ \A r \in DOMAIN registrations \ {id} :
                  registrations'[r] = registrations[r]
             /\ users' = users /\ events' = events
             /\ nextRegId' = nextRegId /\ nextUserId' = nextUserId
             /\ nextEventId' = nextEventId ]_vars

\* registration 1, made at time 0, was given another user at time 1 while
\* a second registration was stored
C28_UpdatedLaterBesideAnother ==
  /\ resp.ctl = "registrations" /\ resp.op = "update" /\ resp.status = 200
  /\ resp.body.id = 1
  /\ clock = 1
  /\ registrations[1].user = resp.body.dto.userId
  /\ registrations[1].user # 3
  /\ registrations[1].registeredAt = 0
  /\ 2 \in DOMAIN registrations

\* ------------------------------------------------- seats of an event
\* creations and updates of registrations, among creations of events
SpecCapacity ==
  Init /\ [][RegistrationsCreate \/ RegistrationsUpdateCall
               \/ EventsCreate]_vars

\* the registrations that reference event e
RegistrationsOf(e) == {r \in DOMAIN registrations : registrations[r].event = e}

\* C29: no event has more registrations referencing it than its capacity.
C29_WithinCapacity ==
  \A e \in DOMAIN events : Cardinality(RegistrationsOf(e)) <= events[e].capacity

\* a second registration for the event of capacity 1 was created with 201
C29_SecondSeatOfOne ==
  /\ resp.ctl = "registrations" /\ resp.op = "create" /\ resp.status = 201
  /\ events[1].capacity = 1
  /\ RegistrationsOf(1) = {1, 2}

====
